---- MODULE Spec2Model ----
(***************************************************************************)
(* Provisioning subsystem of device_manager                                *)
(* (custom_components/device_manager/provisioning).                        *)
(*                                                                         *)
(* The batch run deploy() of deploy.py is modelled one loop iteration per  *)
(* step: one step per device of the inventory (the whole body of the       *)
(* for-loop, base_config() and every is_found() it calls included), one    *)
(* step per handler of the post-processing loop, one step for the final    *)
(* tally line.                                                             *)
(***************************************************************************)
EXTENDS Integers, Sequences, FiniteSets, TLC

VARIABLES
    inventory,  \* DevicesManager.__devices: the list of device dicts (mutated in place)
    macs,       \* CacheManager.__macs_c: MAC -> IP mapping
    fwms,       \* FirmwareFactory.__fwms: list of handlers, in registration order
    pos,        \* number of devices the for-loop of deploy() has taken from the list
    count,      \* deploy(): local count
    success,    \* deploy(): local success
    error,      \* deploy(): local error
    trace,      \* what happened for each device taken: is_found calls, probe, exception
    post,       \* the iterations of the post-processing loop done so far
    tally,      \* <<the counts of the "Goodbye !" line>> once logged, else NoTally
    store,      \* the device store DevicesManager.read queries: readable or not, its rows
    run,        \* number of deploy() calls made in this process
    cacheFile,  \* FILE_CACHE on disk: absent, a YAML mapping, or not valid YAML
    refresh,    \* the last CacheManager call: what the script did, what the call did
    proc,       \* the last handler call: its device, its network calls, what it raised
    endpoint,   \* device side: per IP, the settings the device holds
    backup,     \* the files written under the backup folders
    zfile,      \* ZIGBEE_CONFIG_FILE on disk: ieee -> entry
    mgr,        \* the handlers built last: how many builds, topics_clean, devices done
    env,        \* the network and host at the time of a call: refusals, presets, bridge
    final,      \* device side and Zigbee file at the end of each run
    call,       \* the last call of a pure function: its name, argument, result
    writers     \* the _add_device_to_file calls in progress: position, what each read

vars == <<inventory, macs, fwms, pos, count, success, error, trace, post, tally,
          store, run, cacheFile, refresh, proc, endpoint, backup, zfile, mgr, env, final,
          call, writers>>

(* what the three loops of deploy() never touch *)
others == <<store, run>>

(* what deploy() as a whole never touches once the managers are built *)
handlers == <<proc, endpoint, backup, zfile, mgr, env, final>>
side == <<cacheFile, refresh, handlers>>
(* what only the calls made outside a run touch *)
apart == <<call, writers>>

----------------------------------------------------------------------------
(* Bounds of the model *)

MaxDevices == 2

----------------------------------------------------------------------------
(* contract.py: state vocabulary and record fields *)

_STA_ENABLE == "Enable"
_STA_DISABLE == "Disable"
_STA_NA == "NA"

NoIP == "<unset>"       \* the record has no 'IPresolv' key yet
NoTally == <<>>          \* the final line has not been logged

(* Values of the record fields the run reads *)
MAC1 == "AA:BB:CC:DD:EE:01"      \* as typed in the inventory, upper case
MAC1_L == "aa:bb:cc:dd:ee:01"
MAC2 == "aa:bb:cc:dd:ee:02"
IEEE1 == "0x00124b0012345678"
IEEE_Z == "0x00124b00123456zz"      \* 16 characters after 0x, the last two not hexadecimal
NOT_A_MAC == "not-a-mac"
NONE == "<None>"                 \* Python's None where a string is expected
MacValues == {MAC1, MAC2, IEEE1, ""}
StateValues == {"Enable", "Enable-Hot", "Disable", "NA", "KO", "enable"}
HOST1 == "L0-Office-Button "
HOST1_L == "l0-office-button"
IP1 == "192.168.0.11"

(* str(x).lower().strip() on the strings of the model *)
lower_strip(s) ==
    CASE s = MAC1 -> MAC1_L
      [] s = NONE -> "none"
      [] s = HOST1 -> HOST1_L
      [] OTHER -> s

Dev(m, s, f) ==
    [mac |-> m, hostname |-> HOST1, state |-> s, firmware |-> f, IPresolv |-> NoIP]

Devices ==
         {Dev(m, "Enable", f) : m \in MacValues, f \in {"Tasmota", "Zigbee", "WLED"}}
    \cup {Dev(MAC1, s, "Tasmota") : s \in StateValues}
    \cup {Dev(MAC1, s, "WLED") : s \in {"Enable-Hot", "Disable"}}
    \cup {Dev(IEEE1, s, "Zigbee") : s \in {"Enable-Hot", "Disable"}}
    \cup {Dev(IEEE_Z, "Enable", "Zigbee"), Dev(NOT_A_MAC, "Enable", "Zigbee")}
    \cup {Dev(MAC1, "Enable", "Tuya"), Dev(MAC1, "Enable", "tasmota"),
          Dev(MAC1, "Disable", "Tuya")}

----------------------------------------------------------------------------
(* utility.py *)

(* a sanity pass that rewrites the state as well *)
entity_sanity_with_state(device) ==
    [device EXCEPT !.mac = lower_strip(device.mac),
                   !.hostname = lower_strip(device.hostname),
                   !.state = "Enable"]

(* Sanitizer.entity_sanity: mac and hostname are rewritten in the record *)
entity_sanity(device) ==
    [device EXCEPT !.mac = lower_strip(device.mac),
                   !.hostname = lower_strip(device.hostname)]

----------------------------------------------------------------------------
(* common.py, tasmota.py, zigbee.py, wled.py: the handlers *)

Managers == <<"TasmotaManager", "ZigbeeManager", "WLEDManager">>

(* get_type() of each handler: FIRMWARE_TYPE of its module *)
get_type(fwm) ==
    CASE fwm = "TasmotaManager" -> "Tasmota"
      [] fwm = "ZigbeeManager" -> "Zigbee"
      [] fwm = "WLEDManager" -> "WLED"

(* is_same_type comparing without regard to case *)
is_same_type_nocase(fwm, device) ==
    \/ device.firmware = get_type(fwm)
    \/ device.firmware = "tasmota" /\ get_type(fwm) = "Tasmota"

(* FirmwareManagerBase.is_same_type *)
is_same_type(fwm, device) == device.firmware = get_type(fwm)

(* FirmwareManagerBase.is_enabled *)
is_enabled(device) == device.state = _STA_ENABLE

(* is_found that forgets the state check *)
base_is_found_type_only(fwm, device) == is_same_type(fwm, device)

(* FirmwareManagerBase.is_found: is_same_type(device) and is_enabled(device) *)
base_is_found(fwm, device) == is_same_type(fwm, device) /\ is_enabled(device)

(* the characters of the addresses and functions of the model *)
chars(a) ==
    CASE a = IEEE1 -> <<"0", "x", "0", "0", "1", "2", "4", "b", "0", "0",
                        "1", "2", "3", "4", "5", "6", "7", "8">>
      [] a = IEEE_Z -> <<"0", "x", "0", "0", "1", "2", "4", "b", "0", "0",
                         "1", "2", "3", "4", "5", "6", "z", "z">>
      [] a = "Button" -> <<"B", "u", "t", "t", "o", "n">>
      [] a = "Light" -> <<"L", "i", "g", "h", "t">>
      [] a = NOT_A_MAC -> <<"n", "o", "t", "-", "a", "-", "m", "a", "c">>
      [] a = MAC1 -> <<"A", "A", ":", "B", "B", ":", "C", "C", ":",
                       "D", "D", ":", "E", "E", ":", "0", "1">>
      [] a = "none" -> <<"n", "o", "n", "e">>
      [] a = MAC1_L -> <<"a", "a", ":", "b", "b", ":", "c", "c", ":",
                         "d", "d", ":", "e", "e", ":", "0", "1">>
      [] a = MAC2 -> <<"a", "a", ":", "b", "b", ":", "c", "c", ":",
                       "d", "d", ":", "e", "e", ":", "0", "2">>
      [] OTHER -> <<>>

Digits == {"0", "1", "2", "3", "4", "5", "6", "7", "8", "9"}
HexLetters == {"a", "b", "c", "d", "e", "f", "A", "B", "C", "D", "E", "F"}
OtherLetters ==
    {"g", "h", "i", "j", "k", "l", "m", "n", "o", "p", "q", "r", "s", "t",
     "u", "v", "w", "x", "y", "z", "G", "H", "I", "J", "K", "L", "M", "N",
     "O", "P", "Q", "R", "S", "T", "U", "V", "W", "X", "Y", "Z"}

(* re.compile("^0x[0-9a-zA-Z]{16}$").match(ieee) *)
ieee_match(mac) ==
    LET c == chars(mac)
    IN  /\ Len(c) = 18
        /\ c[1] = "0" /\ c[2] = "x"
        /\ \A i \in 3..18 : c[i] \in Digits \cup HexLetters \cup OtherLetters

(* The record of one is_found call: what it evaluated, what it returned.   *)
(* result is "True", "False" (truthiness of the returned value) or         *)
(* "DeviceError" when the call raised.                                     *)
Call(fwm, device, probed, ping, result) ==
    [fwm |-> fwm,
     same_type |-> is_same_type(fwm, device),
     enabled_evaluated |-> is_same_type(fwm, device),
     enabled |-> is_same_type(fwm, device) /\ is_enabled(device),
     probed |-> probed, ping |-> probed /\ ping, result |-> result]

(* TasmotaManager.is_found and WLEDManager.is_found (same body).           *)
(* cache is the MAC -> IP mapping, ping the outcome of `ping -c1 <ip>`.    *)
(* Returns the call record and the (possibly annotated) device record.     *)
ip_is_found(fwm, device, cache, ping) ==
    IF ~base_is_found(fwm, device)
    THEN [call |-> Call(fwm, device, FALSE, FALSE, "False"), device |-> device]
    ELSE IF ~(device.mac # "" /\ device.mac \in DOMAIN cache)
    THEN [call |-> Call(fwm, device, FALSE, FALSE, "False"), device |-> device]
    ELSE LET annotated == [device EXCEPT !.IPresolv = cache[device.mac]]
         IN  IF ping
             THEN [call |-> Call(fwm, device, TRUE, TRUE, "True"), device |-> annotated]
             ELSE [call |-> Call(fwm, device, TRUE, FALSE, "DeviceError"),
                   device |-> annotated]

(* ZigbeeManager.is_found *)
zigbee_is_found(fwm, device) ==
    IF ~base_is_found(fwm, device)
    THEN [call |-> Call(fwm, device, FALSE, FALSE, "False"), device |-> device]
    ELSE IF ieee_match(device.mac)
    THEN [call |-> Call(fwm, device, FALSE, FALSE, "True"), device |-> device]
    ELSE [call |-> Call(fwm, device, FALSE, FALSE, "False"), device |-> device]

is_found(fwm, device, cache, ping) ==
    IF fwm = "ZigbeeManager"
    THEN zigbee_is_found(fwm, device)
    ELSE ip_is_found(fwm, device, cache, ping)

(* FirmwareFactory.__init__: the handlers of the enabled families, appended *)
(* in the fixed order tasmota, zigbee, wled                                 *)
FirmwareFactory(enabled) ==
    SelectSeq(Managers, LAMBDA m : get_type(m) \in enabled)

----------------------------------------------------------------------------
(* deploy.py *)

(* deploy.py has no module-level name `success`: base_config declares       *)
(* `global success`, so its `success += 1` reads an undefined global and    *)
(* raises NameError.                                                        *)
module_has_success == FALSE

(* The loop of base_config over the handlers, from handler k on.            *)
(* out: [device, calls, raised, processed]                                  *)
RECURSIVE managers_loop(_, _, _, _, _)
managers_loop(k, hs, out, cache, ping) ==
    IF k > Len(hs) THEN out
    ELSE IF out.device.mac = ""
    THEN managers_loop(k + 1, hs, out, cache, ping)    \* `device[mac] and ...`
    ELSE LET r == is_found(hs[k], out.device, cache, ping)
             seen == [out EXCEPT !.device = r.device,
                                 !.calls = Append(out.calls, r.call)]
         IN  CASE r.call.result = "DeviceError" ->
                      [seen EXCEPT !.raised = "DeviceError"]
               [] r.call.result = "True" ->
                      \* fwm.process(device) is commented out (line 20);
                      \* success += 1 on the undefined global
                      IF module_has_success
                      THEN managers_loop(k + 1, hs, seen, cache, ping)
                      ELSE [seen EXCEPT !.raised = "NameError"]
               [] OTHER -> managers_loop(k + 1, hs, seen, cache, ping)

(* base_config(device, logger, ff) *)
base_config(device, hs, cache, ping) ==
    managers_loop(1, hs,
                  [device |-> entity_sanity(device), calls |-> <<>>,
                   raised |-> "none", processed |-> <<>>],
                  cache, ping)

(* an except clause that counts DeviceError only *)
error_after_device_error_only(raised, err) ==
    IF raised = "DeviceError" THEN err + 1 ELSE err

(* the except clause of the device loop *)
error_after(raised, err) == IF raised # "none" THEN err + 1 ELSE err

(* a try/except placed around the loop: the first exception ends the loop *)
next_pos_abort(raised, p, n) == IF raised # "none" THEN n ELSE p + 1

(* the device loop goes on to the next record after the body, whether or    *)
(* not the body raised                                                      *)
next_pos(raised, p, n) == p + 1

InLoop == pos < Len(inventory)
Done == tally # NoTally

(* One iteration of `for __dev in gm.get_devices()`; ping is the outcome of  *)
(* `ping -c1` if is_found runs it for the device                            *)
HandleDevice ==
    /\ InLoop
    /\ \E ping \in BOOLEAN :
         LET i == pos + 1
             out == base_config(inventory[i], fwms, macs, ping)
         IN  /\ count' = count + 1
             /\ inventory' = [inventory EXCEPT ![i] = out.device]
             /\ trace' = Append(trace, [dev |-> i, calls |-> out.calls,
                                        raised |-> out.raised,
                                        processed |-> out.processed])
             /\ error' = error_after(out.raised, error)
             /\ pos' = next_pos(out.raised, pos, Len(inventory))
    /\ UNCHANGED <<macs, fwms, success, post, tally>>
    /\ UNCHANGED others
    /\ UNCHANGED apart
    /\ UNCHANGED side

(* a second loop that does not wait for the device loop *)
post_ready_early(p, n) == TRUE

(* the second loop of deploy() starts once the device loop is over *)
post_ready(p, n) == p = n

(* One iteration of the second `for fwm in ff.get_firmware_managers()`:     *)
(* the debug line is logged; fwm.post_process() is commented out (line 54), *)
(* so the handler's post_process is not invoked                             *)
PostProcessStep ==
    /\ post_ready(pos, Len(inventory))
    /\ Len(post) < Len(fwms)
    /\ tally = NoTally
    /\ post' = Append(post, [fwm |-> fwms[Len(post) + 1], post_process |-> FALSE])
    /\ UNCHANGED <<inventory, macs, fwms, pos, count, success, error, trace, tally>>
    /\ UNCHANGED others
    /\ UNCHANGED apart
    /\ UNCHANGED side

(* logger.info("Goodbye ! ...") *)
Report ==
    /\ pos = Len(inventory)
    /\ Len(post) = Len(fwms)
    /\ tally = NoTally
    /\ tally' = <<[count |-> count, success |-> success, error |-> error]>>
    /\ UNCHANGED <<inventory, macs, fwms, pos, count, success, error, trace, post>>
    /\ UNCHANGED others
    /\ UNCHANGED apart
    /\ UNCHANGED side

CacheValues == { [m \in {} |-> IP1], [m \in {MAC1_L} |-> IP1] }

SeqsUpTo(S, n) == UNION { [1..k -> S] : k \in 0..n }

(* the rows a store that cannot be queried may hold *)
UnreadRows == SeqsUpTo({Dev(MAC1, "Enable", "Tasmota")}, MaxDevices)

Stores ==
         {[ok |-> TRUE, rows |-> r] : r \in SeqsUpTo(Devices, MaxDevices)}
    \cup {[ok |-> FALSE, rows |-> r] : r \in UnreadRows}

(* a read that takes the rows whether or not the query failed *)
read_ignoring_error(st) == st.rows

(* DevicesManager.read followed by get(): the rows of the store, or, when    *)
(* sqlite3 raises, the error is logged and the class-level empty __devices  *)
(* is what get() returns                                                    *)
read(st) == IF st.ok THEN st.rows ELSE <<>>

NoMap == [m \in {} |-> IP1]
NoFile == [kind |-> "absent", map |-> NoMap]
NoScan == [configured |-> FALSE, rc |-> 0, stderr_utf8 |-> TRUE,
           out |-> "mapping", pairs |-> <<>>]
NoRefresh == [op |-> "none", scan |-> NoScan, pre |-> NoMap, file_before |-> NoFile,
              raised |-> "none", wrote |-> FALSE]

IP2 == "192.168.0.12"

(* a device record as process() reads it: the keys of contract.py the       *)
(* handlers use; level, room_slug, position_slug and 'Room FR' are the same *)
(* for every device of the model ("0", "office", "wall", "Bureau")          *)
PDev(m, h, f, ip, fn, il, tg) ==
    [mac |-> m, hostname |-> h, firmware |-> f, IPresolv |-> ip,
     function |-> fn, interlock |-> il, target |-> tg]

NoDevice == PDev("", "", "", NoIP, "", "", "")
NoProc == [op |-> "none", device |-> NoDevice, log |-> <<>>, raised |-> "none",
           validated |-> FALSE, pushed |-> FALSE]
NoSettings == [k \in {} |-> ""]
NoEntries == [i \in {} |-> ""]
NoMgr == [builds |-> 0, topics_clean |-> <<>>, done |-> <<>>]
NoEnv == [call |-> 0, fails |-> 0, presets |-> FALSE, bridge_host |-> FALSE]

(* no handler has been built or called *)
HandlersIdle ==
    /\ proc = NoProc
    /\ endpoint = [ip \in {IP1, IP2} |-> NoSettings]
    /\ backup = {}
    /\ zfile = NoEntries
    /\ mgr = NoMgr
    /\ env = NoEnv
    /\ final = <<>>

NoCall == [fn |-> "none", arg |-> <<>>, out |-> <<>>]
NoWriters == <<>>

(* no function is called apart from the run *)
ApartIdle == call = NoCall /\ writers = NoWriters

(* the cache manager is left alone *)
SideInit == cacheFile = NoFile /\ refresh = NoRefresh /\ HandlersIdle /\ ApartIdle

Init ==
    /\ SideInit
    /\ store \in Stores
    /\ inventory = read(store)
    /\ run = 1
    /\ macs \in CacheValues
    /\ \E enabled \in SUBSET {"Tasmota", "Zigbee", "WLED"} :
           fwms = FirmwareFactory(enabled)
    /\ pos = 0 /\ count = 0 /\ success = 0 /\ error = 0
    /\ trace = <<>>
    /\ post = <<>>
    /\ tally = NoTally

Next == HandleDevice \/ PostProcessStep \/ Report

Spec == Init /\ [][Next]_vars

TypeOK ==
    /\ pos \in 0..Len(inventory)
    /\ count \in Nat /\ success \in Nat /\ error \in Nat
    /\ Len(post) \in 0..Len(fwms)

----------------------------------------------------------------------------
(* Properties *)

Handled == 1..Len(trace)
Raised(k) == trace[k].raised # "none"
RegisteredTypes == {get_type(fwms[j]) : j \in 1..Len(fwms)}
Unregistered(device) == device.firmware \notin RegisteredTypes
CallsOf(k) == {trace[k].calls[j] : j \in 1..Len(trace[k].calls)}
FoundBy(k) == {c \in CallsOf(k) : c.result = "True"}
EnabledVocabulary == {"Enable", "Enable-Hot"}

(* C1: deploy() attempts every device record exactly once, in inventory    *)
(* order, and an exception raised for one device never prevents a later    *)
(* device from being attempted: the devices attempted so far are exactly   *)
(* the first pos records, in order, and the post-processing loop and the   *)
(* final line are reached only with every record attempted.                *)
C1_EveryDeviceOnceInOrder ==
    /\ Len(trace) = pos
    /\ \A k \in Handled : trace[k].dev = k
    /\ (post # <<>> \/ Done) => Len(trace) = Len(inventory)

C1_Witness ==
    /\ Done
    /\ Len(inventory) >= 2
    /\ Raised(1)
    /\ Len(trace) = Len(inventory)

(* C2: the error count of the final tally equals the number of devices      *)
(* whose handling raised an exception, each counted once whatever the kind  *)
(* of exception; a device whose handling did not raise adds nothing.        *)
C2_ErrorCountIsRaised ==
    /\ error = Cardinality({k \in Handled : Raised(k)})
    /\ Done => tally[1].error = Cardinality({k \in Handled : Raised(k)})

C2_Witness ==
    /\ Done
    /\ \E k \in Handled : trace[k].raised = "NameError"
    /\ \E k \in Handled : ~Raised(k)

(* C3: the reported success count equals the number of devices for which a *)
(* handler matched, the device was live and the handler's work completed   *)
(* without raising; the reported total equals the number of records.       *)
C3_SuccessCountIsFound ==
    Done =>
        /\ tally[1].success =
               Cardinality({k \in Handled :
                               FoundBy(k) # {} /\ trace[k].raised # "DeviceError"})
        /\ tally[1].count = Len(inventory)

C5_PostProcessAfterLoop ==
    post # <<>> =>
        /\ Len(trace) = Len(inventory)
        /\ count = Len(inventory)

C5_Witness ==
    /\ post # <<>>
    /\ Len(inventory) >= 2
    /\ \E j \in 1..Len(post) : post[j].fwm = "ZigbeeManager"

(* C6: in a run whose device loop completes, post_process is invoked        *)
(* exactly once on every registered handler before the final tally.         *)
C6_PostProcessOncePerHandler ==
    Done =>
        \A h \in {fwms[j] : j \in 1..Len(fwms)} :
            Cardinality({j \in 1..Len(post) :
                            post[j].fwm = h /\ post[j].post_process}) = 1

(* C7: for every device a handler's is_found returned true for, that        *)
(* handler's process(device) is invoked exactly once before the next device *)
(* is examined; for any other device no process is invoked.                 *)
C7_FoundIsProcessedOnce ==
    \A k \in Handled :
        LET processed == trace[k].processed
        IN  /\ \A c \in FoundBy(k) :
                   Cardinality({j \in 1..Len(processed) : processed[j] = c.fwm}) = 1
            /\ FoundBy(k) = {} => processed = <<>>

(* C8: for a device whose State is not Enable or Enable-Hot every is_found  *)
(* called for it returns false, whatever its Firmware, the address cache    *)
(* and its reachability: no probe is made and the device is not processed.  *)
C8_DisabledNeverFound ==
    \A k \in Handled :
        inventory[k].state \notin EnabledVocabulary =>
            /\ \A c \in CallsOf(k) : c.result = "False" /\ ~c.probed
            /\ trace[k].processed = <<>>
            /\ inventory[k].IPresolv = NoIP

C8_Witness ==
    \E k \in Handled :
        /\ inventory[k].state \in {"Disable", "NA", "KO", "enable"}
        /\ inventory[k].mac \in DOMAIN macs
        /\ \E c \in CallsOf(k) : c.same_type

(* C9: is_enabled(device) is true exactly when State is Enable or           *)
(* Enable-Hot.                                                              *)
C9_EnabledIffEnableOrHot ==
    \A k \in Handled :
        \A c \in CallsOf(k) :
            c.enabled_evaluated =>
                (c.enabled <=> inventory[k].state \in EnabledVocabulary)

(* C10: for the Tasmota and WLED handlers and a device of their firmware    *)
(* in an enabled state: MAC not in the cache, is_found is false without a   *)
(* probe; MAC resolved, one ping is made: answered, is_found is true and    *)
(* the record carries the resolved IP; unanswered, is_found raises          *)
(* DeviceError.                                                             *)
C10_LivenessOfMatchedDevice ==
    \A k \in Handled :
        \A c \in CallsOf(k) :
            (/\ c.fwm \in {"TasmotaManager", "WLEDManager"}
             /\ c.same_type
             /\ inventory[k].state \in EnabledVocabulary) =>
                LET mac == inventory[k].mac
                IN  /\ mac \notin DOMAIN macs => c.result = "False" /\ ~c.probed
                    /\ mac \in DOMAIN macs =>
                           /\ c.probed
                           /\ c.ping => /\ c.result = "True"
                                        /\ inventory[k].IPresolv = macs[mac]
                           /\ ~c.ping => c.result = "DeviceError"

----------------------------------------------------------------------------
(* Inventory load failure (discovery.py, DevicesManager.read) *)

(* C19 (as claimed): a failure to load the device inventory is fatal to the *)
(* run: deploy() never gets to report a tally.                              *)
C19_LoadFailureAborts ==
    ~store.ok => tally = NoTally

(* C19 (amended): a failure to load the device inventory is logged and is   *)
(* not fatal: the run goes on over an empty device list, whatever the store *)
(* holds, and the tally it reports is 0 devices, 0 success, 0 error.        *)
C19_LoadFailureEmptyRun ==
    ~store.ok =>
        /\ inventory = <<>>
        /\ count = 0 /\ error = 0
        /\ Done => tally[1] = [count |-> 0, success |-> 0, error |-> 0]

C19_Witness ==
    /\ ~store.ok
    /\ store.rows # <<>>
    /\ fwms # <<>>
    /\ Len(post) = Len(fwms)
    /\ Done

----------------------------------------------------------------------------
(* Consecutive deploy() calls in one process *)

MaxRuns == 2

(* FirmwareFactory.__init__ on the class attribute __fwms: the handlers of   *)
(* this run are appended to the list the class already holds                *)
FirmwareFactory_append(class_fwms, enabled) ==
    class_fwms \o FirmwareFactory(enabled)

(* deploy() called again once the previous call has returned: a new         *)
(* GlobalManager (cache made again, inventory read again), a new            *)
(* FirmwareFactory, the three counters back to 0                            *)
NewRun ==
    /\ Done
    /\ run < MaxRuns
    /\ run' = run + 1
    /\ inventory' = read(store)
    /\ macs' \in CacheValues
    /\ fwms' = FirmwareFactory_append(fwms, {get_type(fwms[j]) : j \in 1..Len(fwms)})
    /\ pos' = 0 /\ count' = 0 /\ success' = 0 /\ error' = 0
    /\ trace' = <<>>
    /\ post' = <<>>
    /\ tally' = NoTally
    /\ UNCHANGED store
    /\ UNCHANGED apart
    /\ UNCHANGED side

RunDevices ==
    {Dev(MAC1, "Enable", "Tasmota"), Dev(IEEE1, "Enable", "Zigbee"),
     Dev(MAC1, "Disable", "WLED")}

InitRuns ==
    /\ Init
    /\ store.ok
    /\ \A k \in 1..Len(store.rows) : store.rows[k] \in RunDevices

NextRuns == HandleDevice \/ PostProcessStep \/ Report \/ NewRun

SpecRuns == InitRuns /\ [][NextRuns]_vars

(* C20: after any number of consecutive runs in the same process the        *)
(* handler list of the run holds exactly one handler per enabled firmware   *)
(* family, none of them left by an earlier run.                             *)
C20_OneHandlerPerFamily ==
    \A t \in {get_type(fwms[j]) : j \in 1..Len(fwms)} :
        Cardinality({j \in 1..Len(fwms) : get_type(fwms[j]) = t}) = 1

----------------------------------------------------------------------------
(* Zigbee addresses (zigbee.py, ZigbeeManager.is_found) *)

(* "0x" followed by 16 hexadecimal digits *)
IsEui64(mac) ==
    LET c == chars(mac)
    IN  /\ Len(c) = 18
        /\ c[1] = "0" /\ c[2] = "x"
        /\ \A i \in 3..18 : c[i] \in Digits \cup HexLetters

(* C17: for a device of firmware Zigbee in state Enable, the Zigbee         *)
(* handler's is_found is true exactly when the address is "0x" followed by  *)
(* 16 hexadecimal digits, and it makes no probe.                            *)
C17_ZigbeeAcceptsExactlyEui64 ==
    \A k \in 1..Len(trace) :
        \A j \in 1..Len(trace[k].calls) :
            LET c == trace[k].calls[j]
            IN  (c.fwm = "ZigbeeManager" /\ c.same_type /\ c.enabled) =>
                    /\ c.result = "True" <=> IsEui64(inventory[k].mac)
                    /\ ~c.probed

----------------------------------------------------------------------------
(* Address cache (discovery.py, CacheManager) *)

(* str(mac).lower() on the addresses of the model *)
lower(a) == IF a = MAC1 THEN MAC1_L ELSE IF a = NONE THEN "none" ELSE a

(* f with key k set to v *)
Put(f, k, v) == [x \in DOMAIN f \cup {k} |-> IF x = k THEN v ELSE f[x]]

(* CacheManager.load_dict: the mapping of the file when the file exists and *)
(* is valid YAML; a missing file or a YAMLError leaves the mapping as it is *)
load_dict(mem, file) == IF file.kind = "mapping" THEN file.map ELSE mem

(* an update that keeps only what the scan found *)
RECURSIVE update_replacing(_, _, _)
update_replacing(mem, pairs, k) ==
    IF k > Len(pairs) THEN [m \in {lower(pairs[j][2]) : j \in 1..Len(pairs)} |-> mem[m]]
    ELSE update_replacing(Put(mem, lower(pairs[k][2]), pairs[k][1]), pairs, k + 1)

(* self.__macs_c.update({str(mac).lower(): str(ip) for ip, mac in ...}):    *)
(* the pairs of the parsed scan, <<ip, mac>>, taken in document order from  *)
(* pair k on                                                                *)
RECURSIVE update(_, _, _)
update(mem, pairs, k) ==
    IF k > Len(pairs) THEN mem
    ELSE update(Put(mem, lower(pairs[k][2]), pairs[k][1]), pairs, k + 1)

(* CacheManager.make_dict: [mem, file, raised, pre, wrote] *)
make_dict(mem, file, scan) ==
    LET loaded == load_dict(mem, file)
        soft == [mem |-> loaded, file |-> file, raised |-> "none",
                 pre |-> loaded, wrote |-> FALSE]
        hard == [soft EXCEPT !.raised = "UnicodeDecodeError"]
    IN  IF ~scan.configured THEN soft
        ELSE IF scan.rc # 0
        THEN (IF scan.stderr_utf8 THEN soft ELSE hard)  \* stderr.decode('utf-8')
        ELSE CASE scan.out = "not_utf8" -> hard          \* stdout.decode('utf-8')
               [] scan.out = "yaml_error" -> soft
               [] scan.out = "not_dict" -> soft
               [] OTHER ->
                    LET merged == update(loaded, scan.pairs, 1)
                    IN  [mem |-> merged,
                         file |-> [kind |-> "mapping", map |-> merged],
                         raised |-> "none", pre |-> loaded, wrote |-> TRUE]

(* the mappings a cache file may hold *)
FileMaps ==
    {NoMap,
     [m \in {MAC1_L} |-> IP1],
     [m \in {MAC2} |-> IP2],
     [m \in {MAC1_L, MAC2} |-> IF m = MAC2 THEN IP1 ELSE IP2]}

Files ==
    {NoFile, [kind |-> "invalid", map |-> NoMap]}
    \cup {[kind |-> "mapping", map |-> f] : f \in FileMaps}

(* what yaml.safe_load gives for the output of the script when it is a      *)
(* mapping: at most MaxPairs pairs <<ip, mac>> with distinct ip; a line     *)
(* "ip:" with nothing after the colon parses to the pair <<ip, None>>       *)
MaxPairs == 2
ScanPairs ==
    {p \in SeqsUpTo({IP1, IP2} \X {MAC1, MAC1_L, MAC2, NONE}, MaxPairs) :
        \A i, j \in 1..Len(p) : i # j => p[i][1] # p[j][1]}

Scans ==
    {NoScan}
    \cup {[configured |-> TRUE, rc |-> 1, stderr_utf8 |-> u, out |-> "mapping",
           pairs |-> <<>>] : u \in BOOLEAN}
    \cup {[configured |-> TRUE, rc |-> 0, stderr_utf8 |-> TRUE, out |-> o,
           pairs |-> <<>>] : o \in {"not_utf8", "yaml_error", "not_dict"}}
    \cup {[configured |-> TRUE, rc |-> 0, stderr_utf8 |-> TRUE, out |-> "mapping",
           pairs |-> p] : p \in ScanPairs}

(* One call of make_dict: load, run the script, merge, save *)
MakeDict ==
    /\ \E scan \in Scans :
         LET r == make_dict(macs, cacheFile, scan)
         IN  /\ macs' = r.mem
             /\ cacheFile' = r.file
             /\ refresh' = [op |-> "make_dict", scan |-> scan, pre |-> r.pre,
                            file_before |-> cacheFile, raised |-> r.raised,
                            wrote |-> r.wrote]
    /\ UNCHANGED <<inventory, fwms, pos, count, success, error, trace, post, tally>>
    /\ UNCHANGED others
    /\ UNCHANGED apart
    /\ UNCHANGED handlers

(* One call of load_dict alone *)
LoadDict ==
    /\ macs' = load_dict(macs, cacheFile)
    /\ refresh' = [NoRefresh EXCEPT !.op = "load_dict", !.pre = macs,
                                    !.file_before = cacheFile]
    /\ UNCHANGED cacheFile
    /\ UNCHANGED <<inventory, fwms, pos, count, success, error, trace, post, tally>>
    /\ UNCHANGED others
    /\ UNCHANGED apart
    /\ UNCHANGED handlers

(* a cache manager just built, FILE_CACHE as an earlier process left it *)
InitCache ==
    /\ ApartIdle
    /\ macs = NoMap
    /\ cacheFile \in Files
    /\ refresh = NoRefresh
    /\ HandlersIdle
    /\ store = [ok |-> TRUE, rows |-> <<>>]
    /\ inventory = <<>>
    /\ run = 1
    /\ fwms = <<>>
    /\ pos = 0 /\ count = 0 /\ success = 0 /\ error = 0
    /\ trace = <<>>
    /\ post = <<>>
    /\ tally = NoTally

NextCache == MakeDict \/ LoadDict

SpecCache == InitCache /\ [][NextCache]_vars

SoftFailure(scan) == ~scan.configured \/ scan.rc # 0 \/ scan.out # "mapping"

(* C11: when make_dict runs with no scan script configured, or the script   *)
(* exits non-zero, or its output does not parse as a mapping, the call does *)
(* not raise, the mapping in memory is the one loaded before the scan and   *)
(* the cache file is not rewritten.                                         *)
C11_FailedScanIsSoft ==
    (refresh.op = "make_dict" /\ SoftFailure(refresh.scan)) =>
        /\ refresh.raised = "none"
        /\ macs = refresh.pre
        /\ ~refresh.wrote /\ cacheFile = refresh.file_before

(* C12: after a successful refresh the mapping in memory is the mapping     *)
(* loaded before the scan overridden by lowercase(mac) -> ip for the        *)
(* scanned pairs (a known MAC absent from the scan keeps its IP), the cache *)
(* file holds exactly that mapping and loading it gives it back.            *)
C12_RefreshMerges ==
    (refresh.op = "make_dict" /\ ~SoftFailure(refresh.scan)) =>
        LET pairs == refresh.scan.pairs
            scanned == {lower(pairs[j][2]) : j \in 1..Len(pairs)}
        IN  /\ DOMAIN macs = DOMAIN refresh.pre \cup scanned
            /\ \A m \in DOMAIN refresh.pre \ scanned : macs[m] = refresh.pre[m]
            /\ \A j \in 1..Len(pairs) :
                   (\A i \in (j + 1)..Len(pairs) : lower(pairs[i][2]) # lower(pairs[j][2]))
                       => macs[lower(pairs[j][2])] = pairs[j][1]
            /\ cacheFile = [kind |-> "mapping", map |-> macs]
            /\ load_dict(NoMap, cacheFile) = macs

C12_Witness ==
    /\ refresh.op = "make_dict" /\ ~SoftFailure(refresh.scan)
    /\ refresh.scan.pairs = <<<<IP1, MAC1>>>>
    /\ refresh.pre = [m \in {MAC1_L, MAC2} |-> IF m = MAC2 THEN IP1 ELSE IP2]
    /\ macs[MAC2] = IP1 /\ macs[MAC1_L] = IP1

(* six groups of two lower-case hexadecimal digits separated by ':' *)
IsLowerMac(k) ==
    LET c == chars(k)
    IN  /\ Len(c) = 17
        /\ \A i \in 1..17 :
               IF i % 3 = 0 THEN c[i] = ":"
               ELSE c[i] \in Digits \cup {"a", "b", "c", "d", "e", "f"}

(* C23: in every reachable state every key of the MAC -> IP mapping is a    *)
(* lower-case MAC string, the keys that come from the cache file included.  *)
C23_KeysAreLowercaseMacs ==
    /\ \A k \in DOMAIN macs : IsLowerMac(k)
    /\ cacheFile.kind = "mapping" => \A k \in DOMAIN cacheFile.map : IsLowerMac(k)

----------------------------------------------------------------------------
(* The handlers' process() and post_process() (tasmota.py, wled.py,         *)
(* zigbee.py), called on the handlers directly                              *)

NUM_RETRY == 3

HOST31 == "l0-office-button-with-a-long-na"     \* 31 characters
HOST32 == "l0-office-button-with-a-long-nam"    \* 32 characters
IEEE2 == "0x00124b0012345679"

T_BUTTON == PDev(MAC1_L, HOST1_L, "Tasmota", IP1, "Button", "", "light/ceiling")
T_DESK == PDev(MAC1_L, HOST1_L, "Tasmota", IP1, "Button", "0", "light/desk")
T_BLANK == PDev(MAC1_L, HOST1_L, "Tasmota", IP1, "Button", NONE, "None")
T_LOCKED == PDev(MAC1_L, HOST1_L, "Tasmota", IP1, "Button", "1,2", "light/ceiling")
T_LIGHT == PDev(MAC1_L, HOST31, "Tasmota", IP1, "Light", "", "None")
T_LONG == PDev(MAC1_L, HOST32, "Tasmota", IP1, "Button", "", "None")
W_LIGHT == PDev(MAC2, HOST1_L, "WLED", IP2, "Light", "", "None")
W_LONG == PDev(MAC2, HOST32, "WLED", IP2, "Light", "", "None")
Z_BUTTON == PDev(IEEE1, HOST1_L, "Zigbee", NoIP, "Button", "", "None")
Z_LIGHT == PDev(IEEE2, HOST31, "Zigbee", NoIP, "Light", "", "None")
Z_AGAIN == PDev(IEEE1, HOST1_L, "Zigbee", NoIP, "Light", "", "None")
Z_LONG == PDev(IEEE2, HOST32, "Zigbee", NoIP, "Button", "", "None")

ProcDevices ==
    {T_BUTTON, T_LONG, W_LIGHT, W_LONG, Z_BUTTON, Z_LIGHT, Z_LONG}

(* a hostname of 33 characters or more is refused *)
validate_over32(device) == Len(device.hostname) <= 32

(* validate() of the three handlers: TRUE when it returns, FALSE when it    *)
(* raises DeviceError                                                       *)
validate(device) == ~(Len(device.hostname) >= 32)

(* ---- Python strings: sequences of one-character strings ---- *)
LowerCase == <<"a", "b", "c", "d", "e", "f", "g", "h", "i", "j", "k", "l", "m",
               "n", "o", "p", "q", "r", "s", "t", "u", "v", "w", "x", "y", "z">>
UpperCase == <<"A", "B", "C", "D", "E", "F", "G", "H", "I", "J", "K", "L", "M",
               "N", "O", "P", "Q", "R", "S", "T", "U", "V", "W", "X", "Y", "Z">>
DigitChars == <<"0", "1", "2", "3", "4", "5", "6", "7", "8", "9">>
UpperSet == {UpperCase[i] : i \in 1..26}
LowerSet == {LowerCase[i] : i \in 1..26}
LowerOf == [c \in UpperSet |-> LowerCase[CHOOSE i \in 1..26 : UpperCase[i] = c]]
UpperOf == [c \in LowerSet |-> UpperCase[CHOOSE i \in 1..26 : LowerCase[i] = c]]

char_lower(c) == IF c \in UpperSet THEN LowerOf[c] ELSE c
char_upper(c) == IF c \in LowerSet THEN UpperOf[c] ELSE c

(* str.lower() *)
str_lower(s) == [i \in 1..Len(s) |-> char_lower(s[i])]

(* str.capitalize(): the first character upper case, the rest lower case *)
str_capitalize(s) ==
    IF s = <<>> THEN <<>> ELSE <<char_upper(s[1])>> \o str_lower(Tail(s))

(* f"{n}" of a non-negative int *)
RECURSIVE str_int(_)
str_int(n) ==
    IF n < 10 THEN <<DigitChars[n + 1]>>
    ELSE str_int(n \div 10) \o <<DigitChars[(n % 10) + 1]>>

(* the string of the model a sequence of characters spells *)
RECURSIVE text(_)
text(s) == IF s = <<>> THEN "" ELSE s[1] \o text(Tail(s))

(* contract.py: _TOPIC_BASE, _TOPIC_LVL *)
_TOPIC_BASE == <<"H", "o", "m", "e">>
_TOPIC_LVL == <<"L", "v", "l">>
NAME_SEP == <<" ", ">", " ">>

(* contract.py slugs; device carries level (an int) and room_slug, function, *)
(* position_slug (strings)                                                  *)
slug_device_name(device) ==
    str_capitalize(_TOPIC_BASE)
    \o NAME_SEP \o str_capitalize(_TOPIC_LVL) \o str_int(device.level)
    \o NAME_SEP \o str_capitalize(device.room_slug)
    \o NAME_SEP \o str_capitalize(device.function)
    \o NAME_SEP \o str_capitalize(device.position_slug)

(* the location part of the topic, the .lower() of the source left out *)
slug_device_topic_location_as_typed(device) ==
    _TOPIC_BASE \o <<"/", "l">> \o str_int(device.level)
    \o <<"/">> \o device.room_slug

slug_device_topic_location(device) ==
    str_lower(_TOPIC_BASE \o <<"/", "l">> \o str_int(device.level)
              \o <<"/">> \o device.room_slug)

slug_device_topic_device(device) ==
    str_lower(<<"/">> \o device.function \o <<"/">> \o device.position_slug)

slug_device_topic(device) ==
    str_lower(slug_device_topic_location(device) \o slug_device_topic_device(device))

(* the placement keys of the devices the handlers are called with: level 0, *)
(* room "office", position "wall"                                           *)
located(device) ==
    [level |-> 0, room_slug |-> <<"o", "f", "f", "i", "c", "e">>,
     function |-> chars(device.function),
     position_slug |-> <<"w", "a", "l", "l">>]

(* One retried call: for i in range(iter), an attempt; a success breaks,    *)
(* a ConnectionError raises DeviceError when i = raise_at. The endpoint     *)
(* refuses the first `fails` connections. A loop that runs out neither      *)
(* succeeded nor raised.                                                    *)
RECURSIVE attempt_loop(_, _, _, _)
attempt_loop(i, iter, raise_at, fails) ==
    IF i >= iter THEN [attempts |-> iter, ok |-> FALSE, raised |-> FALSE]
    ELSE IF i >= fails THEN [attempts |-> i + 1, ok |-> TRUE, raised |-> FALSE]
    ELSE IF i = raise_at THEN [attempts |-> i + 1, ok |-> FALSE, raised |-> TRUE]
    ELSE attempt_loop(i + 1, iter, raise_at, fails)

(* a network call a process() plans: the loop around it and what it sends; *)
(* one tells a single command from a Backlog0                              *)
NetCall(kind, iter, raise_at, one, configs, file) ==
    [kind |-> kind, iter |-> iter, raise_at |-> raise_at, one |-> one,
     configs |-> configs, file |-> file, exc |-> "none"]

BackupFile(folder, device, ext) ==
    [folder |-> folder, name |-> <<"mac", device.mac, device.hostname, ext>>]

NoBackup == [folder |-> 0, name |-> <<>>]

(* a step of a plan that raises before any request is made *)
Raises(exc) == [NetCall("raise", 0, 0, FALSE, <<>>, NoBackup) EXCEPT !.exc = exc]

(* TasmotaManager.dump_config: range(NUM_RETRY), raise when i == NUM_RETRY *)
dump_config(device, folder) ==
    NetCall("dump", NUM_RETRY, NUM_RETRY, FALSE, <<>>, BackupFile(folder, device, "bmp"))

(* TasmotaManager.send_cmnds: range(NUM_RETRY + 1), raise when i == NUM_RETRY *)
send_cmnds(one, configs) ==
    NetCall("cmnd", NUM_RETRY + 1, NUM_RETRY, one, configs, NoBackup)

RULE_MANUAL == "Rule1"
RULE_AUTO == "Rule2"
RULE_SYSTEM == "Rule3"
RULE_DEF_MANUAL ==
    "ON Power1#State=0 DO Power2 1 ENDON ON Power1#State=1 DO Power2 0 ENDON"
Rule1Text == RULE_DEF_MANUAL \o " " \o " "        \* ' '.join([rule_manual, ' '])
Rule2Blank == " " \o " " \o " " \o " " \o " "   \* ' '.join([' ', ' ', ' '])
Rule3Text == " " \o " " \o RULE_DEF_MANUAL
AUTO_HEAD == "ON Mqtt#Connected DO backlog Rule1 0; SetOption114 1; SwitchTopic "
AUTO_TAIL == "; Power 1 ENDON ON Mqtt#Disconnected DO backlog SetOption114 0; SwitchTopic 0; Rule1 1 ENDON"
RULE_DEF_AUTO == AUTO_HEAD \o "light/ceiling" \o AUTO_TAIL

(* rule_auto.replace("light/ceiling", target): the one occurrence *)
rule_auto_for(target) == AUTO_HEAD \o target \o AUTO_TAIL

Rule2Text == " " \o " " \o RULE_DEF_AUTO \o " " \o " "

ACTIONS_DEVICE1(device) ==
    << <<"DeviceName", text(slug_device_name(located(device)))>>,
       <<"FriendlyName0", "1">>, <<"FriendlyName1", "1">>, <<"FriendlyName2", "1">>,
       <<"SetOption3", "1">>, <<"GroupTopic", "all">>, <<"TelePeriod", "120">>,
       <<"NtpServer1", "pool.ntp.org">>, <<"NtpServer2", "pool.ntp.org">>,
       <<"NtpServer3", "0">>, <<"WebPassword", "p4ssW0rD">>, <<"Timezone", "99">>,
       <<"TimeStd", "0,0,10,1,3,60">>, <<"TimeDst", "0,0,3,1,2,120">>,
       <<"Latitude", "48.16403653881043">>, <<"Longitude", "-1.4358991384506228">>,
       <<"WebLog", "2">>, <<"SetOption65", "0">>, <<"SetOption53", "1">>,
       <<"SetOption114", "0">>, <<"SwitchTopic", "0">> >>

ACTIONS_FORCE_REBOOT(device) ==
    << <<"Hostname", device.hostname>>,
       <<"MqttClient", IF device.mac = MAC1_L THEN "tasmota-aa:bb:cc:dd:ee:01"
                       ELSE "tasmota-aa:bb:cc:dd:ee:02">>,
       <<"MqttHost", "bus">>,
       <<"FullTopic", "home/l0/office/%topic%/%prefix%/">>,
       <<"Topic", text(Tail(slug_device_topic_device(located(device))))>>,
       <<"MqttPort", "1883">>, <<"MqttUser", "admin">>,
       <<"MqttPassword", "mqtt_password">>,
       <<"SSID1", "">>, <<"Password1", "">>, <<"SSID2", "">>, <<"Password2", "">>,
       <<"Restart", "1">> >>

(* has_interlock reads device['interlock']; None is falsy *)
has_interlock(device) == device.interlock \notin {"", "0", NONE}

(* the group is read from device['Interlock'], a key the record may lack *)
tasmota_set_interlock(device) ==
    IF has_interlock(device)
    THEN IF "Interlock" \in DOMAIN device
         THEN << send_cmnds(TRUE, << <<"Interlock", device.Interlock>> >>),
                 send_cmnds(TRUE, << <<"Interlock", "On">> >>) >>
         ELSE << Raises("KeyError") >>
    ELSE << send_cmnds(TRUE, << <<"Interlock", "Off">> >>) >>

(* the rule of slot 2: blank without a target, else RULE_DEF_AUTO with the  *)
(* target in place of light/ceiling                                         *)
rule_auto(device) ==
    IF device.target \in {"", "None"} THEN " "
    ELSE IF device.target # "light/ceiling" THEN rule_auto_for(device.target)
    ELSE RULE_DEF_AUTO

(* a customizer that sets the flags before the rules *)
tasmota_set_custom_flags_first(device) ==
    << send_cmnds(FALSE, << <<RULE_MANUAL, "0">>, <<RULE_AUTO, "1">>,
                            <<RULE_SYSTEM, "0">> >>),
       send_cmnds(TRUE, << <<RULE_MANUAL, Rule1Text>> >>),
       send_cmnds(TRUE, << <<RULE_AUTO, " " \o " " \o rule_auto(device) \o " " \o " ">> >>),
       send_cmnds(TRUE, << <<RULE_SYSTEM, Rule3Text>> >>) >>

(* TasmotaButtonAdapter.tasmota_set_custom *)
tasmota_set_custom(device) ==
    << send_cmnds(TRUE, << <<RULE_MANUAL, Rule1Text>> >>),
       send_cmnds(TRUE, << <<RULE_AUTO, " " \o " " \o rule_auto(device) \o " " \o " ">> >>),
       send_cmnds(TRUE, << <<RULE_SYSTEM, Rule3Text>> >>),
       send_cmnds(FALSE, << <<RULE_MANUAL, "0">>, <<RULE_AUTO, "1">>,
                            <<RULE_SYSTEM, "0">> >>) >>

(* Light and Shutters adapters send nothing *)
tasmota_set_bytype(device) ==
    IF device.function = "Button" THEN tasmota_set_custom(device) ELSE <<>>

tasmota_set_base(device) ==
    << send_cmnds(FALSE, ACTIONS_DEVICE1(device)) >>
    \o tasmota_set_interlock(device)
    \o tasmota_set_bytype(device)
    \o << send_cmnds(FALSE, ACTIONS_FORCE_REBOOT(device)) >>

(* WLEDManager: range(NUM_RETRY), raise when i == NUM_RETRY - 1 *)
wled_dump_config(device, folder) ==
    NetCall("dump", NUM_RETRY, NUM_RETRY - 1, FALSE, <<>>, BackupFile(folder, device, "json"))

send_cfg(payload) == NetCall("cfg", NUM_RETRY, NUM_RETRY - 1, FALSE, payload, NoBackup)

(* nothing is sent when FILE_PRESETS is not a file *)
upload_presets(device, presets) ==
    IF presets
    THEN << NetCall("presets", NUM_RETRY, NUM_RETRY - 1, FALSE,
                    << <<"/presets.json", "FILE_PRESETS">> >>, NoBackup) >>
    ELSE <<>>

(* one GET, a ConnectionError is passed over *)
wled_restart(device) == NetCall("restart", 1, NUM_RETRY, FALSE, <<>>, NoBackup)

wled_set_base(device) ==
    << send_cfg(<< <<"id.name", IF device.function = "Button"
                                THEN "home_lvl0_office_button_wall"
                                ELSE "home_lvl0_office_light_wall">>,
                   <<"id.mdns", device.hostname>>,
                   <<"nw.ins", "<WF1_SSID, WF1_PASSWORD>">>,
                   <<"if.ntp.host", "pool.ntp.org">>,
                   <<"if.ntp.utcOffst", "3600">>,
                   <<"if.mqtt.en", "True">>,
                   <<"if.mqtt.broker", "bus">>,
                   <<"if.mqtt.port", "1883">>,
                   <<"if.mqtt.user", "admin">>,
                   <<"if.mqtt.psk", "mqtt_password">>,
                   <<"if.mqtt.cid", IF device.mac = MAC2 THEN "wled-aa:bb:cc:dd:ee:02"
                                    ELSE "wled-aa:bb:cc:dd:ee:01">>,
                   <<"if.mqtt.topics.device", text(slug_device_topic(located(device)))>> >>),
       wled_restart(device) >>

(* the network calls of process(device), in order, after validate() *)
plan(device, presets, folder) ==
    CASE device.firmware = "Tasmota" ->
             <<dump_config(device, folder)>> \o tasmota_set_base(device)
      [] device.firmware = "WLED" ->
             <<wled_dump_config(device, folder)>> \o upload_presets(device, presets)
                 \o wled_set_base(device)
      [] OTHER -> <<>>      \* ZigbeeManager.dump_config is pass

(* The simulated device. A Tasmota command with a value sets it; RuleN 0/1  *)
(* and Interlock On/Off set the enable flag of the slot; a blank value asks *)
(* for the current value and Restart holds no setting.                      *)
is_blank(val) == val \in {"", " ", Rule2Blank}

enabled_key(key) ==
    CASE key = RULE_MANUAL -> "Rule1.enabled"
      [] key = RULE_AUTO -> "Rule2.enabled"
      [] OTHER -> "Rule3.enabled"


(* a rule text adds to the slot instead of replacing it *)
apply_cmnd_appending(settings, key, val) ==
    CASE key = "Restart" -> settings
      [] key \in {RULE_MANUAL, RULE_AUTO, RULE_SYSTEM} /\ val \in {"0", "1"} ->
             Put(settings, enabled_key(key), val)
      [] key \in {RULE_MANUAL, RULE_AUTO, RULE_SYSTEM} /\ is_blank(val) -> settings
      [] key \in {RULE_MANUAL, RULE_AUTO, RULE_SYSTEM} /\ key \in DOMAIN settings ->
             Put(settings, key, settings[key] \o " " \o val)
      [] key = "Interlock" /\ val \in {"On", "Off"} ->
             Put(settings, "Interlock.enabled", val)
      [] OTHER -> Put(settings, key, val)

apply_cmnd(settings, key, val) ==
    CASE key = "Restart" -> settings
      [] key \in {RULE_MANUAL, RULE_AUTO, RULE_SYSTEM} /\ val \in {"0", "1"} ->
             Put(settings, enabled_key(key), val)
      [] key \in {RULE_MANUAL, RULE_AUTO, RULE_SYSTEM} /\ is_blank(val) -> settings
      [] key = "Interlock" /\ val \in {"On", "Off"} ->
             Put(settings, "Interlock.enabled", val)
      [] OTHER -> Put(settings, key, val)

(* the pairs of one request, applied in the order sent, from pair k on *)
RECURSIVE apply_configs(_, _, _)
apply_configs(settings, configs, k) ==
    IF k > Len(configs) THEN settings
    ELSE apply_configs(apply_cmnd(settings, configs[k][1], configs[k][2]),
                       configs, k + 1)

(* the calls of a plan from call k on, until one raises; the endpoint       *)
(* refuses the first e.fails connections of call e.call                     *)
(* what call c leaves when its loop ended as r *)
after_call(acc, c, fails, r) ==
    [log |-> Append(acc.log, [kind |-> c.kind, fails |-> fails,
                              attempts |-> r.attempts, ok |-> r.ok,
                              one |-> c.one, configs |-> c.configs]),
     raised |-> IF r.raised THEN "DeviceError" ELSE "none",
     settings |-> IF r.ok THEN apply_configs(acc.settings, c.configs, 1)
                  ELSE acc.settings,
     files |-> IF r.ok /\ c.kind = "dump" THEN acc.files \cup {c.file}
               ELSE acc.files]

refused(e, k) == IF e.call = k THEN e.fails ELSE 0

RECURSIVE run_plan(_, _, _, _)
run_plan(calls, k, e, acc) ==
    IF k > Len(calls) \/ acc.raised # "none" THEN acc
    ELSE IF calls[k].kind = "raise" THEN [acc EXCEPT !.raised = calls[k].exc]
    ELSE run_plan(calls, k + 1, e,
             after_call(acc, calls[k], refused(e, k),
                        attempt_loop(0, calls[k].iter, calls[k].raise_at,
                                     refused(e, k))))

(* the file is left as it was found *)
_create_file_keeping(file) == file

(* ZigbeeManager._create_file: open(ZIGBEE_CONFIG_FILE, 'w').write('') *)
_create_file(file) == NoEntries

(* ZigbeeManager._add_device_to_file *)
_add_device_to_file(file, ieee, data) == Put(file, ieee, data)

(* conf_device of ZigbeeManager.set_base *)
conf_device(device) ==
    [friendly_name |-> IF device.function = "Button" THEN "l0/office/button/wall"
                       ELSE IF device.function = "Light" THEN "l0/office/light/wall"
                       ELSE "l0/office//wall",
     name |-> text(slug_device_name(located(device))),
     suggested_area |-> "Bureau"]

(* what process(device) leaves once its calls ended as r; set_base is the   *)
(* last step of ZigbeeManager.process                                       *)
after_plan(device, file, topics_clean, r) ==
    [log |-> r.log, raised |-> r.raised, validated |-> TRUE,
     settings |-> r.settings, files |-> r.files,
     zfile |-> IF device.firmware = "Zigbee"
               THEN _add_device_to_file(file, device.mac, conf_device(device))
               ELSE file,
     topics_clean |-> IF device.firmware = "Zigbee"
                      THEN Append(topics_clean, text(slug_device_topic(located(device))))
                      ELSE topics_clean]

(* process(device) of the handler of the device's family:                   *)
(* [log, raised, validated, settings, files, zfile, topics_clean]           *)
process(device, e, settings, files, file, topics_clean, folder) ==
    IF ~validate(device)
    THEN [log |-> <<>>, raised |-> "DeviceError", validated |-> FALSE,
          settings |-> settings, files |-> files, zfile |-> file,
          topics_clean |-> topics_clean]
    ELSE after_plan(device, file, topics_clean,
                    run_plan(plan(device, e.presets, folder), 1, e,
                             [log |-> <<>>, raised |-> "none", settings |-> settings,
                              files |-> files]))

MaxFail == 4         \* an endpoint refuses at most this many connections in a row
MaxProcessed == 2    \* Zigbee devices one ZigbeeManager processes
MaxCalls == 3        \* the calls of a plan that may be refused: the first ones

Envs ==
    {[call |-> c, fails |-> f, presets |-> p, bridge_host |-> FALSE] :
        c \in 1..MaxCalls, f \in 1..MaxFail, p \in BOOLEAN}
    \cup {[call |-> 0, fails |-> 0, presets |-> p, bridge_host |-> FALSE] :
        p \in BOOLEAN}

OldSettings ==
    [k \in {"Hostname", RULE_MANUAL, "Rule1.enabled"} |->
        CASE k = "Hostname" -> "tasmota-old"
          [] k = RULE_MANUAL -> "ON Button1#State DO Power1 2 ENDON"
          [] OTHER -> "1"]

(* the devices before the run: as shipped, or configured by hand *)
Endpoints ==
    {[ip \in {IP1, IP2} |-> NoSettings], [ip \in {IP1, IP2} |-> OldSettings]}

(* ZIGBEE_CONFIG_FILE as an earlier process left it *)
OldFiles ==
    {NoEntries,
     [i \in {IEEE2} |-> conf_device(Z_LIGHT)],
     [i \in {IEEE1, IEEE_Z} |-> conf_device(Z_BUTTON)]}

(* FirmwareFactory(): TasmotaManager and WLEDManager make a new backup      *)
(* folder, ZigbeeManager empties its lists and ZIGBEE_CONFIG_FILE           *)
build(m, file) ==
    [mgr |-> [builds |-> m.builds + 1, topics_clean |-> <<>>, done |-> <<>>],
     zfile |-> _create_file(file)]

(* process(device) on the handler of its family, DeviceError caught by the  *)
(* caller; what it leaves in proc, endpoint, backup, zfile, mgr             *)
Process(device, e) ==
    LET ip == device.IPresolv
        settings == IF ip \in DOMAIN endpoint THEN endpoint[ip] ELSE NoSettings
    IN  \E r \in {process(device, e, settings, backup, zfile, mgr.topics_clean,
                            mgr.builds)} :
        /\ proc' = [op |-> "process", device |-> device, log |-> r.log,
                    raised |-> r.raised, validated |-> r.validated, pushed |-> FALSE]
        /\ endpoint' = IF ip \in DOMAIN endpoint
                       THEN [endpoint EXCEPT ![ip] = r.settings] ELSE endpoint
        /\ backup' = r.files
        /\ zfile' = r.zfile
        /\ mgr' = [mgr EXCEPT !.topics_clean = r.topics_clean,
                              !.done = IF device.firmware = "Zigbee" /\ r.raised = "none"
                                       THEN Append(@, device) ELSE @]

(* what of the network and host a process(device) can meet: a refusal at   *)
(* one of the calls it makes, the presets file for WLED                     *)
envs_upto(device, presets, n) ==
    {e \in Envs :
        /\ e.presets = presets
        /\ e.presets => device.firmware = "WLED" /\ validate(device)
        /\ e.call > 0 => validate(device) /\ e.call <= n}

EnvsOf(device) ==
    UNION {envs_upto(device, presets, Len(plan(device, presets, 0))) :
              presets \in BOOLEAN}

ProcessDevice ==
    /\ mgr.builds > 0
    /\ \E device \in ProcDevices :
         /\ device.firmware = "Zigbee" => Len(mgr.done) < MaxProcessed
         /\ \E e \in EnvsOf(device) : Process(device, e)
    /\ UNCHANGED <<env, final>>
    /\ UNCHANGED <<inventory, macs, fwms, pos, count, success, error, trace, post, tally>>
    /\ UNCHANGED <<others, cacheFile, refresh>>
    /\ UNCHANGED apart

(* post_process() of the handlers: only ZigbeeManager's does anything, it   *)
(* copies ZIGBEE_CONFIG_FILE to the bridge when BRIDGE_HOST is set and      *)
(* publishes the restart request                                            *)
(* publishes the restart request; scp runs only when BRIDGE_HOST is set and *)
(* its return code is not looked at                                         *)
Step(kind, ok, configs) ==
    [kind |-> kind, fails |-> 0, attempts |-> 1, ok |-> ok, one |-> FALSE,
     configs |-> configs]

RESTART_TOPIC == "home/bridge/request/restart"

post_process(bridge_host, scp_ok) ==
    [NoProc EXCEPT
        !.op = "post_process", !.pushed = bridge_host,
        !.log = (IF bridge_host THEN <<Step("scp", scp_ok, <<>>)>> ELSE <<>>)
                \o <<Step("publish", TRUE, << <<RESTART_TOPIC, "">> >>)>>]

PostProcess ==
    /\ mgr.builds > 0
    /\ \E bridge_host, scp_ok \in BOOLEAN :
           /\ bridge_host \/ scp_ok
           /\ proc' = post_process(bridge_host, scp_ok)
    /\ UNCHANGED <<endpoint, backup, zfile, mgr, env, final>>
    /\ UNCHANGED <<inventory, macs, fwms, pos, count, success, error, trace, post, tally>>
    /\ UNCHANGED <<others, cacheFile, refresh>>
    /\ UNCHANGED apart

(* the handlers just built; the devices as found *)
InitProc ==
    /\ ApartIdle
    /\ proc = NoProc
    /\ endpoint = [ip \in {IP1, IP2} |-> OldSettings]
    /\ backup = {}
    /\ \E old \in OldFiles :
         /\ zfile = build(NoMgr, old).zfile
         /\ mgr = build(NoMgr, old).mgr
    /\ env = NoEnv
    /\ final = <<>>
    /\ macs = NoMap
    /\ cacheFile = NoFile
    /\ refresh = NoRefresh
    /\ store = [ok |-> TRUE, rows |-> <<>>]
    /\ inventory = <<>>
    /\ run = 1
    /\ fwms = <<>>
    /\ pos = 0 /\ count = 0 /\ success = 0 /\ error = 0
    /\ trace = <<>>
    /\ post = <<>>
    /\ tally = NoTally

NextProc == ProcessDevice \/ PostProcess

SpecProc == InitProc /\ [][NextProc]_vars

(* the calls the handlers wrap in a retry loop *)
Retried == {"dump", "cmnd", "cfg", "presets"}
ProcLog == {proc.log[k] : k \in 1..Len(proc.log)}
Min(a, b) == IF a < b THEN a ELSE b

(* C13: every retried network call is attempted at most 3 times, and the    *)
(* number of attempts is the position of the first attempt that succeeds,   *)
(* capped at 3.                                                             *)
C13_AtMostThreeAttempts ==
    proc.op = "process" =>
        \A c \in ProcLog :
            c.kind \in Retried =>
                /\ c.attempts <= 3
                /\ c.attempts = Min(c.fails + 1, 3)

(* C14: when every attempt of a retried call fails, process raises          *)
(* DeviceError and makes no later call; the Tasmota handler pushes no       *)
(* command to a device whose dump was not fetched and saved.                *)
C14_AllFailedStopsTheDevice ==
    proc.op = "process" =>
        /\ \A k \in 1..Len(proc.log) :
               (proc.log[k].kind \in Retried /\ ~proc.log[k].ok) =>
                   (proc.raised = "DeviceError" /\ k = Len(proc.log))
        /\ (proc.device.firmware = "Tasmota" /\ \E c \in ProcLog : c.kind = "cmnd") =>
               /\ proc.log[1].kind = "dump" /\ proc.log[1].ok
               /\ BackupFile(mgr.builds, proc.device, "bmp") \in backup

(* C15: process(device) of any of the three handlers on a hostname of 32    *)
(* characters or more raises DeviceError before any side effect (no request *)
(* sent, no backup written, no entry added to the Zigbee file); a hostname  *)
(* of fewer than 32 characters passes validation.                           *)
C15_LongHostnameRaisesFirst ==
    [][proc'.op = "process" =>
          /\ proc'.validated <=> Len(proc'.device.hostname) < 32
          /\ ~proc'.validated =>
                 /\ proc'.raised = "DeviceError"
                 /\ proc'.log = <<>>
                 /\ UNCHANGED <<endpoint, backup, zfile>>]_vars

C15_Witness ==
    /\ proc.op = "process" /\ proc.device = Z_LONG
    /\ proc.raised = "DeviceError"
    /\ DOMAIN zfile = {IEEE1}

(* C18: when Zigbee post_process pushes the devices file, the file holds    *)
(* one entry per address of the Zigbee devices processed since the handler  *)
(* was built, the entry of the device processed last under that address,    *)
(* and nothing else.                                                        *)
C18_PushedFileIsThisRun ==
    (proc.op = "post_process" /\ proc.pushed) =>
        /\ DOMAIN zfile = {mgr.done[k].mac : k \in 1..Len(mgr.done)}
        /\ \A k \in 1..Len(mgr.done) :
               (\A j \in (k + 1)..Len(mgr.done) : mgr.done[j].mac # mgr.done[k].mac)
                   => zfile[mgr.done[k].mac] = conf_device(mgr.done[k])

(* the requests post_process made *)
Restarts == SelectSeq(proc.log, LAMBDA c : c.kind = "publish" /\ c.configs[1][1] = RESTART_TOPIC)
Copied(k) == \E j \in 1..(k - 1) : proc.log[j].kind = "scp" /\ proc.log[j].ok

(* C28: ZigbeeManager.post_process publishes exactly one restart request,   *)
(* and only after the devices file has been copied to the bridge: never     *)
(* before the copy, never when the copy did not take place.                 *)
C28_RestartAfterCopy ==
    proc.op = "post_process" =>
        /\ Len(Restarts) = 1
        /\ \A k \in 1..Len(proc.log) : proc.log[k].kind = "publish" => Copied(k)

C18_Witness ==
    /\ proc.op = "post_process" /\ proc.pushed
    /\ mgr.done = <<Z_BUTTON, Z_LIGHT>>
    /\ DOMAIN zfile = {IEEE1, IEEE2}

----------------------------------------------------------------------------
(* The same inventory run again against the same devices: the handlers are *)
(* built, process() is called on each device in inventory order and         *)
(* post_process() at the end, the calls deploy() names at deploy.py:20 and  *)
(* deploy.py:54                                                             *)

MaxInventory == 2

TwiceDevices == {T_BUTTON, T_LIGHT, T_LONG, W_LIGHT, Z_BUTTON, Z_AGAIN, Z_LIGHT}

TwiceEnvs == {[e EXCEPT !.bridge_host = b] : e \in Envs, b \in BOOLEAN}

(* FirmwareFactory() at the start of a run *)
BuildHandlers ==
    /\ mgr.builds < run
    /\ mgr' = build(mgr, zfile).mgr
    /\ zfile' = build(mgr, zfile).zfile
    /\ proc' = [NoProc EXCEPT !.op = "build"]
    /\ UNCHANGED <<endpoint, backup, env, final>>
    /\ UNCHANGED <<inventory, macs, fwms, pos, count, success, error, trace, post, tally>>
    /\ UNCHANGED <<others, cacheFile, refresh>>
    /\ UNCHANGED apart

(* process() of the next device of the inventory, DeviceError caught *)
ProcessNext ==
    /\ mgr.builds = run /\ Len(final) < run
    /\ pos < Len(inventory)
    /\ Process(inventory[pos + 1], env)
    /\ pos' = pos + 1
    /\ UNCHANGED <<env, final>>
    /\ UNCHANGED <<inventory, macs, fwms, count, success, error, trace, post, tally>>
    /\ UNCHANGED <<others, cacheFile, refresh>>
    /\ UNCHANGED apart

(* post_process() once the inventory is done; the next run starts over *)
FinishRun ==
    /\ mgr.builds = run /\ Len(final) < run
    /\ pos = Len(inventory)
    /\ \E scp_ok \in BOOLEAN :
           /\ env.bridge_host \/ scp_ok
           /\ proc' = post_process(env.bridge_host, scp_ok)
    /\ final' = Append(final, [endpoint |-> endpoint, zfile |-> zfile])
    /\ IF run < MaxRuns THEN run' = run + 1 /\ pos' = 0 ELSE UNCHANGED <<run, pos>>
    /\ UNCHANGED <<endpoint, backup, zfile, mgr, env>>
    /\ UNCHANGED <<inventory, macs, fwms, count, success, error, trace, post, tally>>
    /\ UNCHANGED <<store, cacheFile, refresh>>
    /\ UNCHANGED apart

InitTwice ==
    /\ ApartIdle
    /\ inventory \in SeqsUpTo(TwiceDevices, MaxInventory)
    /\ env \in TwiceEnvs
    /\ endpoint \in Endpoints
    /\ zfile \in {NoEntries, [i \in {IEEE1, IEEE_Z} |-> conf_device(Z_BUTTON)]}
    /\ proc = NoProc
    /\ backup = {}
    /\ mgr = NoMgr
    /\ final = <<>>
    /\ run = 1
    /\ pos = 0
    /\ macs = NoMap
    /\ cacheFile = NoFile
    /\ refresh = NoRefresh
    /\ store = [ok |-> TRUE, rows |-> <<>>]
    /\ fwms = <<>>
    /\ count = 0 /\ success = 0 /\ error = 0
    /\ trace = <<>>
    /\ post = <<>>
    /\ tally = NoTally

NextTwice == BuildHandlers \/ ProcessNext \/ FinishRun

SpecTwice == InitTwice /\ [][NextTwice]_vars

(* C16: running the same inventory again against the same devices leaves    *)
(* the device-side configuration (settings, rule slots, rule enable flags)  *)
(* and the Zigbee devices file as the first run left them.                  *)
C16_SecondRunChangesNothing ==
    \A i \in 1..Len(final) : final[i] = final[1]

C16_Witness ==
    /\ Len(final) >= 2
    /\ inventory = <<T_BUTTON, Z_BUTTON>>
    /\ final[2].endpoint[IP1][RULE_MANUAL] = Rule1Text
    /\ final[2].endpoint[IP1]["Rule1.enabled"] = "0"
    /\ DOMAIN final[2].zfile = {IEEE1}

(***************************************************************************)
(* The naming functions of contract.py and device.py, called on their own. *)
(***************************************************************************)
MaxLevel == 10

Rooms == { <<"o", "f", "f", "i", "c", "e">>,
           <<"L", "i", "v", "i", "n", "g", "R", "o", "o", "m">> }
Functions == { <<"b", "u", "t", "t", "o", "n">>, <<"L", "i", "g", "h", "t">>,
               <<"T", "V">> }
Positions == { <<"d", "e", "s", "k">>, <<"W", "a", "l", "l">>,
               <<"n", "o", "r", "t", "h", "-", "E", "a", "s", "t">> }
SlugDevices ==
    [level : 0..MaxLevel, room_slug : Rooms, function : Functions,
     position_slug : Positions]

(* no deploy() run is in progress and none was made *)
RunIdle ==
    /\ store = [ok |-> TRUE, rows |-> <<>>]
    /\ inventory = <<>>
    /\ run = 1
    /\ macs = NoMap
    /\ fwms = <<>>
    /\ pos = 0 /\ count = 0 /\ success = 0 /\ error = 0
    /\ trace = <<>>
    /\ post = <<>>
    /\ tally = NoTally

run_vars == <<inventory, macs, fwms, pos, count, success, error, trace, post, tally,
              store, run>>

(* the four slug functions applied to one device *)
Slugs ==
    \E device \in SlugDevices :
        /\ call' = [fn |-> "slug", arg |-> device,
                    out |-> [name |-> slug_device_name(device),
                             location |-> slug_device_topic_location(device),
                             device |-> slug_device_topic_device(device),
                             topic |-> slug_device_topic(device)]]
        /\ UNCHANGED <<run_vars, side, writers>>

(* ---- device.py: the normalizers of the function and firmware fields ---- *)
None == <<"None object">>      \* Python's None, told apart from every string
MaxLen == 3

_ALLOWED_FUNCTIONS ==
    { <<"b", "u", "t", "t", "o", "n">>,
      <<"d", "o", "o", "r">>,
      <<"d", "o", "o", "r", "b", "e", "l", "l">>,
      <<"h", "e", "a", "t", "e", "r">>,
      <<"l", "i", "g", "h", "t">>,
      <<"m", "o", "t", "i", "o", "n">>,
      <<"s", "h", "u", "t", "t", "e", "r">>,
      <<"t", "v">>,
      <<"w", "i", "n", "d", "o", "w">>,
      <<"t", "h", "e", "r", "m", "a", "l">>,
      <<"i", "r">>,
      <<"p", "r", "e", "s", "e", "n", "c", "e">>,
      <<"e", "n", "e", "r", "g", "y">>,
      <<"i", "n", "f", "r", "a">>,
      <<"w", "a", "t", "e", "r">>,
      <<"g", "a", "z">>,
      <<"s", "e", "n", "s", "o", "r">> }

_ALLOWED_FIRMWARES ==
    { <<"e", "m", "b", "e", "d", "e", "d">>,
      <<"t", "a", "s", "m", "o", "t", "a">>,
      <<"t", "u", "y", "a">>,
      <<"z", "i", "g", "b", "e", "e">>,
      <<"n", "a">>,
      <<"a", "n", "d", "r", "o", "i", "d">>,
      <<"a", "n", "d", "r", "o", "i", "d", "-", "c", "a", "s", "t">>,
      <<"w", "l", "e", "d">> }

Whitespace == {" ", "\t"}
SafeChars == LowerSet \cup {DigitChars[i] : i \in 1..10} \cup {"-", "_", "."}

RECURSIVE lstrip(_)
lstrip(s) == IF s # <<>> /\ s[1] \in Whitespace THEN lstrip(Tail(s)) ELSE s

RECURSIVE rstrip(_)
rstrip(s) ==
    IF s # <<>> /\ s[Len(s)] \in Whitespace THEN rstrip(SubSeq(s, 1, Len(s) - 1)) ELSE s

(* str.strip() *)
str_strip(s) == rstrip(lstrip(s))

(* re.sub(r"\s+", "-", s) *)
RECURSIVE sub_whitespace(_)
sub_whitespace(s) ==
    IF s = <<>> THEN <<>>
    ELSE IF s[1] \in Whitespace THEN <<"-">> \o sub_whitespace(lstrip(s))
    ELSE <<s[1]>> \o sub_whitespace(Tail(s))

(* re.sub(r"[^a-z0-9\-_.]", "", s) *)
sub_unsafe(s) == SelectSeq(s, LAMBDA c : c \in SafeChars)

starts_with(s, old) == Len(s) >= Len(old) /\ SubSeq(s, 1, Len(old)) = old

(* str.replace(old, new), old not empty *)
RECURSIVE str_replace(_, _, _)
str_replace(s, old, new) ==
    IF s = <<>> THEN <<>>
    ELSE IF starts_with(s, old)
         THEN new \o str_replace(SubSeq(s, Len(old) + 1, Len(s)), old, new)
    ELSE <<s[1]>> \o str_replace(Tail(s), old, new)

_sanitize_slug(value) ==
    IF value = None THEN None
    ELSE LET s == str_lower(str_strip(value))
         IN  IF s = <<>> THEN None ELSE sub_unsafe(sub_whitespace(s))

normalize_function(fn) ==
    IF fn = None THEN None
    ELSE LET s == str_lower(str_strip(fn))
         IN  IF s \in _ALLOWED_FUNCTIONS THEN s ELSE _sanitize_slug(s)

EMBEDDED == <<"e", "m", "b", "e", "d", "d", "e", "d">>
EMBEDED == <<"e", "m", "b", "e", "d", "e", "d">>

normalize_firmware(fw) ==
    IF fw = None THEN None
    ELSE LET s == str_lower(str_strip(fw))
             s2 == str_replace(s, EMBEDDED, EMBEDED)
         IN  IF s \in _ALLOWED_FIRMWARES THEN s
             ELSE IF s2 \in _ALLOWED_FIRMWARES THEN s2
             ELSE _sanitize_slug(s)

(* the values the two fields are given: every short string over a few       *)
(* characters, the values of tests/test_device.py, and None                 *)
FieldChars == {"t", "v", "V", " ", "!"}
ShortValues == UNION {[1..n -> FieldChars] : n \in 0..MaxLen}
NamedValues ==
    { <<"B", "u", "t", "t", "o", "n">>,
      <<"D", "o", "o", "r", "B", "e", "l", "l">>,
      <<"U", "n", "k", "n", "o", "w", "n", " ", "F", "u", "n", "c">>,
      <<"T", "a", "s", "m", "o", "t", "a">>,
      <<"E", "m", "b", "e", "d", "d", "e", "d">>,
      <<"E", "M", "B", "E", "D", "D", "E", "D">>,
      <<"W", "L", "E", "D">>,
      <<"A", "n", "d", "r", "o", "i", "d", " ", " ", "C", "a", "s", "t">>,
      <<"m", "y", " ", "e", "m", "b", "e", "d", "d", "e", "d">>,
      <<"!", "!", "!">> }
FieldValues == ShortValues \cup NamedValues \cup {None}

(* a normalizer applied to a value, then to its own result *)
NormalizeFunction ==
    \E value \in FieldValues :
        /\ call' = [fn |-> "normalize_function", arg |-> value,
                    out |-> normalize_function(value),
                    again |-> normalize_function(normalize_function(value))]
        /\ UNCHANGED <<run_vars, side, writers>>

NormalizeFirmware ==
    \E value \in FieldValues :
        /\ call' = [fn |-> "normalize_firmware", arg |-> value,
                    out |-> normalize_firmware(value),
                    again |-> normalize_firmware(normalize_firmware(value))]
        /\ UNCHANGED <<run_vars, side, writers>>

InitCalls == RunIdle /\ SideInit

NextCalls == Slugs \/ NormalizeFunction \/ NormalizeFirmware

SpecCalls == InitCalls /\ [][NextCalls]_vars

(* the claim's wording of the two results, part by part *)
Capitalized(part) ==
    IF part = <<>> THEN <<>>
    ELSE <<char_upper(part[1])>> \o [i \in 1..(Len(part) - 1) |-> char_lower(part[i + 1])]

TopicOf(d) ==
    <<"h", "o", "m", "e", "/", "l">> \o str_int(d.level)
    \o <<"/">> \o str_lower(d.room_slug)
    \o <<"/">> \o str_lower(d.function)
    \o <<"/">> \o str_lower(d.position_slug)

NameOf(d) ==
    <<"H", "o", "m", "e", " ", ">", " ", "L", "v", "l">> \o str_int(d.level)
    \o <<" ", ">", " ">> \o Capitalized(d.room_slug)
    \o <<" ", ">", " ">> \o Capitalized(d.function)
    \o <<" ", ">", " ">> \o Capitalized(d.position_slug)

(* C21: the topic of a device is the lower-case string                      *)
(* home/l<level>/<room_slug>/<function>/<position_slug>, equal to the       *)
(* location part followed by the device part; its display name is           *)
(* "Home > Lvl<level> > <Room> > <Function> > <Position>" with each part    *)
(* capitalized.                                                             *)
C21_TopicAndName ==
    call.fn = "slug" =>
        /\ call.out.topic = TopicOf(call.arg)
        /\ call.out.topic = call.out.location \o call.out.device
        /\ call.out.name = NameOf(call.arg)

(* level 0, office, button, desk *)
C21_Witness ==
    /\ call.fn = "slug"
    /\ call.arg = [level |-> 0, room_slug |-> <<"o", "f", "f", "i", "c", "e">>,
                   function |-> <<"b", "u", "t", "t", "o", "n">>,
                   position_slug |-> <<"d", "e", "s", "k">>]
    /\ text(call.out.topic) = "home/l0/office/button/desk"
    /\ text(call.out.name) = "Home > Lvl0 > Office > Button > Desk"

Normalized == call.fn \in {"normalize_function", "normalize_firmware"}

Vocabulary ==
    IF call.fn = "normalize_function" THEN _ALLOWED_FUNCTIONS ELSE _ALLOWED_FIRMWARES

UNKNOWN_FUNC == <<"U", "n", "k", "n", "o", "w", "n", " ", "F", "u", "n", "c">>

(* an allowed value is matched whatever its case *)
CaseInsensitive ==
    (Normalized /\ call.arg # None /\ str_lower(call.arg) \in Vocabulary)
        => call.out = str_lower(call.arg)

(* 'embedded', in any case, is the firmware 'embeded' *)
EmbeddedIsEmbeded ==
    (call.fn = "normalize_firmware" /\ call.arg # None
     /\ str_lower(call.arg) = EMBEDDED) => call.out = EMBEDED

(* a value outside the vocabulary comes back as a slug: nothing upper case, *)
(* no whitespace, each run of inner whitespace turned into one '-'          *)
OutsideIsSlug ==
    (Normalized /\ call.arg # None /\ call.out # None)
        => /\ \A i \in 1..Len(call.out) : call.out[i] \notin UpperSet \cup Whitespace
           /\ call.arg = UNKNOWN_FUNC => text(call.out) = "unknown-func"

(* normalizing the result again returns it unchanged *)
Idempotent == Normalized => call.again = call.out

(* C22: normalize_function and normalize_firmware match their allowed       *)
(* vocabularies whatever the case, the firmware 'embedded' becomes          *)
(* 'embeded', a value outside the vocabulary yields its slug (lower case,   *)
(* whitespace runs replaced by '-'), and both are idempotent.               *)
C22_NormalizersIdempotent ==
    CaseInsensitive /\ EmbeddedIsEmbeded /\ OutsideIsSlug /\ Idempotent

(***************************************************************************)
(* deploy() over records whose MAC is missing, the cache being what a      *)
(* refresh of the cache manager left.                                      *)
(***************************************************************************)
AbsentMacs == {NONE, ""}
AbsentDevices ==
    {Dev(m, "Enable", f) : m \in AbsentMacs \cup {MAC1},
                           f \in {"Tasmota", "Zigbee", "WLED"}}

(* the mapping and the cache file after make_dict on a manager just built *)
Refreshed ==
    {r \in {make_dict(NoMap, file, scan) : file \in Files, scan \in Scans} :
        r.raised = "none"}

InitAbsent ==
    /\ ApartIdle
    /\ HandlersIdle
    /\ refresh = NoRefresh
    /\ \E r \in Refreshed : macs = r.mem /\ cacheFile = r.file
    /\ store \in {[ok |-> TRUE, rows |-> r] : r \in SeqsUpTo(AbsentDevices, MaxDevices)}
    /\ inventory = read(store)
    /\ run = 1
    /\ fwms = FirmwareFactory({"Tasmota", "Zigbee", "WLED"})
    /\ pos = 0 /\ count = 0 /\ success = 0 /\ error = 0
    /\ trace = <<>>
    /\ post = <<>>
    /\ tally = NoTally

SpecAbsent == InitAbsent /\ [][Next]_vars

(* the MAC of record k as the inventory gave it *)
GivenMac(k) == store.rows[trace[k].dev].mac

(* C24: a record whose MAC is absent (null or empty) is never found by any  *)
(* handler and never processed, whatever the scan output and the cache      *)
(* contain, a scan pair whose MAC is null included.                         *)
C24_AbsentMacNeverFound ==
    \A k \in Handled :
        GivenMac(k) \in AbsentMacs =>
            /\ FoundBy(k) = {}
            /\ trace[k].processed = <<>>

(* C25: handling a device leaves the MAC -> IP mapping, the cache file and  *)
(* the inventory store as they were; in the device record only the mac and  *)
(* hostname (normalized) and the resolved IP (taken from the mapping) may   *)
(* change, and no other record changes.                                     *)
C25_HandlingFrame ==
    [][/\ macs' = macs
       /\ cacheFile' = cacheFile
       /\ store' = store
       /\ Len(inventory') = Len(inventory)
       /\ \A k \in 1..Len(inventory) :
              \/ inventory'[k] = inventory[k]
              \/ /\ k = pos + 1
                 /\ inventory'[k] =
                        [inventory[k] EXCEPT !.mac = lower_strip(@),
                                             !.hostname = lower_strip(@),
                                             !.IPresolv = inventory'[k].IPresolv]
                 /\ \/ inventory'[k].IPresolv = inventory[k].IPresolv
                    \/ \E m \in DOMAIN macs : inventory'[k].IPresolv = macs[m]]_vars

(* a record found through the cache, another one handled after a failure *)
C25_Witness ==
    /\ Len(trace) = 2
    /\ trace[1].raised = "DeviceError"
    /\ store.rows[2].mac = MAC1 /\ inventory[2].mac = MAC1_L
    /\ store.rows[2].hostname = HOST1 /\ inventory[2].hostname = HOST1_L
    /\ inventory[2].IPresolv = IP1
    /\ macs = [m \in {MAC1_L} |-> IP1]

(***************************************************************************)
(* TasmotaManager.process called on Tasmota devices of every kind, any one *)
(* request of the process being refused some number of times.              *)
(***************************************************************************)
TasmotaDevices == {T_BUTTON, T_DESK, T_BLANK, T_LOCKED, T_LIGHT}

TasmotaEnvs(device) ==
    {[NoEnv EXCEPT !.call = c, !.fails = f] :
        c \in 1..Len(plan(device, FALSE, 0)), f \in 1..MaxFail}
    \cup {NoEnv}

ProcessTasmota ==
    /\ mgr.builds > 0
    /\ \E device \in TasmotaDevices :
         \E e \in TasmotaEnvs(device) : Process(device, e)
    /\ UNCHANGED <<env, final>>
    /\ UNCHANGED <<inventory, macs, fwms, pos, count, success, error, trace, post, tally>>
    /\ UNCHANGED <<others, cacheFile, refresh>>
    /\ UNCHANGED apart

InitTasmota == InitProc

NextTasmota == ProcessTasmota

SpecTasmota == InitTasmota /\ [][NextTasmota]_vars

(* a Tasmota process() that returned without raising *)
Completed ==
    /\ proc.op = "process" /\ proc.device.firmware = "Tasmota"
    /\ proc.validated /\ proc.raised = "none"

(* the requests that reached the device, in the order they were made *)
Reached == SelectSeq(proc.log, LAMBDA c : c.ok)

FirstKey(c) == IF c.configs = <<>> THEN "" ELSE c.configs[1][1]
LastKey(c) == IF c.configs = <<>> THEN "" ELSE c.configs[Len(c.configs)][1]
RuleKeys == {RULE_MANUAL, RULE_AUTO, RULE_SYSTEM}
IsBase(c) == c.kind = "cmnd" /\ ~c.one /\ FirstKey(c) = "DeviceName"
IsInterlock(c) == c.kind = "cmnd" /\ c.one /\ FirstKey(c) = "Interlock"
IsRule(c) == c.kind = "cmnd" /\ FirstKey(c) \in RuleKeys
IsRestart(c) ==
    c.kind = "cmnd" /\ ~c.one /\ FirstKey(c) = "Hostname" /\ LastKey(c) = "Restart"

(* C26: in a completed Tasmota process the requests reach the device in     *)
(* this order: the configuration dump, the base-settings backlog, the       *)
(* interlock command(s), the function-specific rule commands, and last the  *)
(* backlog of network, MQTT and hostname settings that carries Restart;     *)
(* nothing is sent after it.                                                *)
C26_RequestOrder ==
    Completed =>
        LET r == Reached
            n == Len(r)
        IN  /\ n >= 4
            /\ r[1].kind = "dump"
            /\ IsBase(r[2])
            /\ IsInterlock(r[3])
            /\ IsRestart(r[n]) /\ proc.log[Len(proc.log)] = r[n]
            /\ \E j \in 4..n :
                   /\ \A i \in 3..(j - 1) : IsInterlock(r[i])
                   /\ \A i \in j..(n - 1) : IsRule(r[i])

(* the commands of the Button customizer, as sent *)
RuleCommands == SelectSeq(proc.log, IsRule)

HasTarget(device) == device.target \notin {"", "None"}

(* C27: the Button customizer sends exactly four commands, in order: the    *)
(* definitions of Rule1, Rule2 and Rule3, each on its own, then one backlog *)
(* with the flags Rule1=0, Rule2=1, Rule3=0; the rule of slot 2 refers to   *)
(* the device's Target when it is set and is blank otherwise.               *)
C27_ButtonRules ==
    (Completed /\ proc.device.function = "Button") =>
        LET c == RuleCommands
        IN  /\ Len(c) = 4
            /\ c[1].one /\ c[1].configs = << <<"Rule1", Rule1Text>> >>
            /\ c[2].one /\ Len(c[2].configs) = 1 /\ c[2].configs[1][1] = "Rule2"
            /\ c[2].configs[1][2] =
                   IF HasTarget(proc.device)
                   THEN "  " \o AUTO_HEAD \o proc.device.target \o AUTO_TAIL \o "  "
                   ELSE "     "
            /\ c[3].one /\ c[3].configs = << <<"Rule3", Rule3Text>> >>
            /\ ~c[4].one
            /\ c[4].configs = << <<"Rule1", "0">>, <<"Rule2", "1">>, <<"Rule3", "0">> >>

C27_Witness ==
    /\ Completed /\ proc.device = T_DESK
    /\ Len(RuleCommands) = 4
    /\ RuleCommands[2].configs[1][2] =
           "  ON Mqtt#Connected DO backlog Rule1 0; SetOption114 1; SwitchTopic light/desk; Power 1 ENDON ON Mqtt#Disconnected DO backlog SetOption114 0; SwitchTopic 0; Rule1 1 ENDON  "
    /\ \A k \in 1..Len(proc.log) : proc.log[k].ok

(* the interlock step was entered: the base backlog before it went through *)
InterlockStepEntered ==
    /\ proc.op = "process" /\ proc.device.firmware = "Tasmota" /\ proc.validated
    /\ Len(proc.log) >= 2 /\ proc.log[2].ok

InterlockSet(device) == device.interlock \notin {"", "0", NONE}

(* C30: tasmota_set_interlock sends the group definition and then           *)
(* "Interlock On" when the interlock field of the record is non-empty and   *)
(* not "0", otherwise exactly one "Interlock Off"; it does not raise for a  *)
(* record that carries the inventory's interlock field, and the process     *)
(* goes on to the function-specific step.                                   *)
C30_InterlockStep ==
    InterlockStepEntered =>
        /\ proc.raised # "KeyError"
        /\ Len(proc.log) >= 3
        /\ IF InterlockSet(proc.device)
           THEN /\ proc.log[3].configs = << <<"Interlock", proc.device.interlock>> >>
                /\ proc.log[3].ok =>
                       /\ Len(proc.log) >= 4
                       /\ proc.log[4].configs = << <<"Interlock", "On">> >>
           ELSE /\ proc.log[3].configs = << <<"Interlock", "Off">> >>
                /\ Len(proc.log) >= 4 => ~IsInterlock(proc.log[4])

(***************************************************************************)
(* Two calls of ZigbeeManager._add_device_to_file in progress at once on   *)
(* the same ZIGBEE_CONFIG_FILE. Each call reads the file, sets its entry   *)
(* in what it read, and writes the result back; nothing locks the file.    *)
(***************************************************************************)
Writers == {1, 2}

ZigbeeDevices == {Z_BUTTON, Z_LIGHT, Z_AGAIN, Z_LONG}

(* a call that has not opened the file yet *)
Writer(device) ==
    [pc |-> "start", ieee |-> device.mac, data |-> conf_device(device),
     devices |-> NoEntries]

(* with open(ZIGBEE_CONFIG_FILE) as file: devices = yaml.load(file, ...) *)
ReadFile(w) ==
    /\ writers[w].pc = "start"
    /\ writers' = [writers EXCEPT ![w].pc = "read", ![w].devices = zfile]
    /\ UNCHANGED zfile

(* devices[ieee] = data; yaml.dump(devices, file) *)
WriteFile(w) ==
    /\ writers[w].pc = "read"
    /\ zfile' = _add_device_to_file(writers[w].devices, writers[w].ieee,
                                    writers[w].data)
    /\ writers' = [writers EXCEPT ![w].pc = "done"]

AddDeviceRead ==
    /\ \E w \in Writers : ReadFile(w)
    /\ UNCHANGED <<run_vars, cacheFile, refresh, call>>
    /\ UNCHANGED <<proc, endpoint, backup, mgr, env, final>>

AddDeviceWrite ==
    /\ \E w \in Writers : WriteFile(w)
    /\ UNCHANGED <<run_vars, cacheFile, refresh, call>>
    /\ UNCHANGED <<proc, endpoint, backup, mgr, env, final>>

InitWriters ==
    /\ RunIdle
    /\ cacheFile = NoFile /\ refresh = NoRefresh /\ call = NoCall
    /\ proc = NoProc
    /\ endpoint = [ip \in {IP1, IP2} |-> NoSettings]
    /\ backup = {}
    /\ mgr = NoMgr /\ env = NoEnv /\ final = <<>>
    /\ zfile \in OldFiles
    /\ \E d1, d2 \in ZigbeeDevices :
           /\ d1.mac # d2.mac
           /\ writers = <<Writer(d1), Writer(d2)>>

NextWriters == AddDeviceRead \/ AddDeviceWrite

SpecWriters == InitWriters /\ [][NextWriters]_vars

(* C29: two _add_device_to_file calls for two different devices, their read *)
(* and write steps interleaved in any way, leave both entries in the file:  *)
(* no update is lost.                                                       *)
C29_NoLostUpdate ==
    (\A w \in Writers : writers[w].pc = "done") =>
        \A w \in Writers :
            /\ writers[w].ieee \in DOMAIN zfile
            /\ zfile[writers[w].ieee] = writers[w].data
====
